---- MODULE Spec2Model ----
\* Model of src/python_interpreter.rs: discovery of python interpreters
\* (PythonInterpreter::find_all), the abiflags rule table (fun_with_abiflags),
\* the platform sanity check (check_platform_sanity) and the two generators
\* get_tag and get_library_extension.
EXTENDS Integers, Sequences, FiniteSets, TLC

VARIABLES
    target,              \* the compile-time host facts behind Target::os() & co.
    python_versions,     \* find_all: the argument, a list of executables
    idx,                 \* find_all: position of the for loop (next candidate)
    available_versions,  \* find_all: the local Vec of resolved interpreters
    outputs,             \* find_all: what each spawned child reported, in order
    pc,                  \* find_all: "loop" or "returned"
    result,              \* find_all: the value returned
    call,                \* direct call: name of the function last called
    message,             \* direct call: its IntepreterMetadataMessage argument
    self,                \* direct call: its PythonInterpreter receiver
    ret                  \* direct call: what the call produced

vars == <<target, python_versions, idx, available_versions, outputs, pc, result,
          call, message, self, ret>>

find_all_vars == <<python_versions, idx, available_versions, outputs, pc, result>>

call_vars == <<call, message, self, ret>>

-----------------------------------------------------------------------------
\* Bounds of the model.

\* Longest candidate list handed to find_all.
MaxCandidates == 3

\* Largest major version an interpreter reports (majors are 1..MaxMajor).
MaxMajor == 4

\* Largest minor version an interpreter reports (minors are 0..MaxMinor).
MaxMinor == 6

-----------------------------------------------------------------------------
\* Values.

\* Option<String>: None is the empty sequence, Some(s) is <<s>>.
None == <<>>

Some(s) == <<s>>

is_some(o) == Len(o) > 0

\* One line of an error's chain: a format string and its arguments.
Msg(text, args) == [text |-> text, args |-> args]

\* Result values. An Error is the chain of its messages, outermost context first.
Ok(v) == [tag |-> "Ok", val |-> v, err |-> <<>>]

Err(chain) == [tag |-> "Err", val |-> "", err |-> chain]

\* panic!(..): the call unwinds, no value is returned to the caller.
Panic(text) == [tag |-> "Panic", val |-> "", err |-> <<Msg(text, <<>>)>>]

\* Error::context: wraps an error in one more line of explanation.
context(r, m) == IF r.tag = "Err" THEN Err(<<m>> \o r.err) ELSE r

Digit == <<"0", "1", "2", "3", "4", "5", "6", "7", "8", "9">>

\* Display of a usize inside format!: its decimal digits.
RECURSIVE Dec(_)
Dec(n) == IF n < 10 THEN Digit[n + 1] ELSE Dec(n \div 10) \o Digit[(n % 10) + 1]

\* The hosts the tool is compiled for: Target::os(), arch(), env(), pointer_width().
Targets ==
    { [os |-> "linux",   arch |-> "x86_64", env |-> "gnu",  pointer_width |-> "64"],
      [os |-> "macos",   arch |-> "x86_64", env |-> "",     pointer_width |-> "64"],
      [os |-> "windows", arch |-> "x86_64", env |-> "msvc", pointer_width |-> "64"],
      [os |-> "windows", arch |-> "x86",    env |-> "msvc", pointer_width |-> "32"],
      [os |-> "freebsd", arch |-> "x86_64", env |-> "",     pointer_width |-> "64"] }

OsNames == {t.os : t \in Targets}

\* Values of sys.platform an interpreter may report.
Platforms == {"win32", "win_amd64", "linux", "linux2", "linux3", "darwin",
              "cygwin", "freebsd11"}

\* Values of sysconfig's ABIFLAGS: undefined, or a string.
AbiflagsFields == {None, Some(""), Some("m"), Some("mu")}

\* IntepreterMetadataMessage.
Messages ==
    [major : 1..MaxMajor, minor : 0..MaxMinor, abiflags : AbiflagsFields,
     m : BOOLEAN, u : BOOLEAN, d : BOOLEAN, platform : Platforms]

NoMessage ==
    [major |-> 0, minor |-> 0, abiflags |-> None, m |-> FALSE, u |-> FALSE,
     d |-> FALSE, platform |-> ""]

\* PythonInterpreter.
PythonInterpreter(major, minor, abiflags, os, executable) ==
    [major |-> major, minor |-> minor, abiflags |-> abiflags, target |-> os,
     executable |-> executable]

NoInterpreter == PythonInterpreter(0, 0, "", "", "")

-----------------------------------------------------------------------------
\* The bail! texts.

TextPy2Abiflags ==
    "A python 2 interpreter does not define abiflags in its sysconfig"

TextPy2Windows ==
    "A python 2 interpreter on windows does not define abiflags in its sysconfig"

TextPy3Windows ==
    "A python 3 interpreter on windows does not define abiflags in its sysconfig"

TextPy3NotM ==
    "A python 3 interpreter on linux or mac os must have 'm' as abiflags"

TextPy3NoAbiflags ==
    "A python 3 interpreter on linux or mac os must define abiflags in its sysconfig"

TextOtherPlatform ==
    "I'm running on a platform that is neither window, nor linux, nor mac os"

TextVersion == "Only python 2.7 and python 3.x are supported"

TextPlatform == "sys.platform in python, {}, and Target::os() in rust, {}, don't match"

TextNotSupported == "This platform is not supported"

TextMetadata == "Trying to get metadata from the python interpreter {} failed"

TextInformation == "Failed to get information from the python interpreter"

-----------------------------------------------------------------------------
\* fun_with_abiflags, check_platform_sanity.

\* abiflags_python2 without the windows test.
abiflags_python2_any_host(msg, os) ==
    LET abiflags == (IF msg.m THEN "m" ELSE "") \o (IF msg.u THEN "u" ELSE "")
                    \o (IF msg.d THEN "d" ELSE "")
    IN  IF is_some(msg.abiflags) THEN Err(<<Msg(TextPy2Abiflags, <<>>)>>)
        ELSE Ok(abiflags)

\* The major == 2 branch: assemble m/u/d, refuse ABIFLAGS, refuse any flag on windows.
abiflags_python2(msg, os) ==
    LET abiflags == (IF msg.m THEN "m" ELSE "") \o (IF msg.u THEN "u" ELSE "")
                    \o (IF msg.d THEN "d" ELSE "")
    IN  IF is_some(msg.abiflags) THEN Err(<<Msg(TextPy2Abiflags, <<>>)>>)
        ELSE IF abiflags # "" /\ os = "windows"
             THEN Err(<<Msg(TextPy2Windows, <<>>)>>)
             ELSE Ok(abiflags)

\* abiflags_python3 taking whatever ABIFLAGS says on linux and macos.
abiflags_python3_any_abiflags(msg, os) ==
    IF os = "windows"
    THEN IF is_some(msg.abiflags) THEN Err(<<Msg(TextPy3Windows, <<>>)>>)
         ELSE Ok("")
    ELSE IF os = "linux" \/ os = "macos"
         THEN IF is_some(msg.abiflags) THEN Ok(msg.abiflags[1])
              ELSE Err(<<Msg(TextPy3NoAbiflags, <<>>)>>)
         ELSE Err(<<Msg(TextOtherPlatform, <<>>)>>)

\* The major == 3 && minor >= 5 branch: ABIFLAGS decides, per host.
abiflags_python3(msg, os) ==
    IF os = "windows"
    THEN IF is_some(msg.abiflags) THEN Err(<<Msg(TextPy3Windows, <<>>)>>)
         ELSE Ok("")
    ELSE IF os = "linux" \/ os = "macos"
         THEN IF is_some(msg.abiflags)
              THEN IF msg.abiflags[1] # "m" THEN Err(<<Msg(TextPy3NotM, <<>>)>>)
                   ELSE Ok(msg.abiflags[1])
              ELSE Err(<<Msg(TextPy3NoAbiflags, <<>>)>>)
         ELSE Err(<<Msg(TextOtherPlatform, <<>>)>>)

\* is_python3 without the test of the minor version.
is_python3_any_minor(msg) == msg.major = 3

\* The version test that guards the python 3 branch.
is_python3(msg) == msg.major = 3 /\ msg.minor >= 5

fun_with_abiflags(msg, os) ==
    IF msg.major = 2 THEN abiflags_python2(msg, os)
    ELSE IF is_python3(msg) THEN abiflags_python3(msg, os)
    ELSE Err(<<Msg(TextVersion, <<>>)>>)

\* sane_platform with "linux3" left out of the linux arm.
sane_platform_no_linux3(platform, os) ==
    CASE platform \in {"win32", "win_amd64"} -> os = "windows"
      [] platform \in {"linux", "linux2"} -> os = "linux"
      [] platform = "darwin" -> os = "macos"
      [] OTHER -> FALSE

\* sane_platform with the default arm accepting the label.
sane_platform_default_true(platform, os) ==
    CASE platform \in {"win32", "win_amd64"} -> os = "windows"
      [] platform \in {"linux", "linux2", "linux3"} -> os = "linux"
      [] platform = "darwin" -> os = "macos"
      [] OTHER -> TRUE

\* The match on message.platform.
sane_platform(platform, os) ==
    CASE platform \in {"win32", "win_amd64"} -> os = "windows"
      [] platform \in {"linux", "linux2", "linux3"} -> os = "linux"
      [] platform = "darwin" -> os = "macos"
      [] OTHER -> FALSE

check_platform_sanity(msg, os) ==
    IF ~sane_platform(msg.platform, os)
    THEN Err(<<Msg(TextPlatform, <<msg.platform, os>>)>>)
    ELSE Ok("()")

-----------------------------------------------------------------------------
\* get_tag, get_library_extension.

\* "win_amd64" or "win32", by Target::pointer_width().
windows_platform(t) == IF t.pointer_width = "64" THEN "win_amd64" ELSE "win32"

TagMacos ==
    "macosx_10_6_intel.macosx_10_9_intel.macosx_10_9_x86_64.macosx_10_10_intel.macosx_10_10_x86_64"

get_tag(interp, t) ==
    LET fmt(platform) ==
            "cp" \o Dec(interp.major) \o Dec(interp.minor) \o "-cp" \o Dec(interp.major)
            \o Dec(interp.minor) \o interp.abiflags \o "-" \o platform
    IN  CASE interp.target = "linux" -> Ok(fmt("manylinux1_x86_64"))
          [] interp.target = "macos" -> Ok(fmt(TagMacos))
          [] interp.target = "windows" -> Ok(fmt(windows_platform(t)))
          [] OTHER -> Panic(TextNotSupported)

\* get_library_extension with the major == 2 test inside the match arms.
get_library_extension_match_first(interp, t) ==
    LET so(ext) == IF interp.major = 2 THEN Ok(".so") ELSE Ok(ext)
    IN  CASE interp.target = "linux" ->
                so(".cpython-" \o Dec(interp.major) \o Dec(interp.minor)
                   \o interp.abiflags \o "-" \o t.arch \o "-"
                   \o (t.os \o "-" \o t.env) \o ".so")
          [] interp.target = "macos" ->
                so(".cpython-" \o Dec(interp.major) \o Dec(interp.minor)
                   \o interp.abiflags \o "-darwin.so")
          [] interp.target = "windows" ->
                so(".cp" \o Dec(interp.major) \o Dec(interp.minor) \o "-"
                   \o windows_platform(t) \o ".pyd")
          [] OTHER -> Panic(TextNotSupported)

get_library_extension(interp, t) ==
    IF interp.major = 2 THEN Ok(".so")
    ELSE CASE interp.target = "linux" ->
                Ok(".cpython-" \o Dec(interp.major) \o Dec(interp.minor) \o interp.abiflags
                   \o "-" \o t.arch \o "-" \o (t.os \o "-" \o t.env) \o ".so")
           [] interp.target = "macos" ->
                Ok(".cpython-" \o Dec(interp.major) \o Dec(interp.minor) \o interp.abiflags
                   \o "-darwin.so")
           [] interp.target = "windows" ->
                Ok(".cp" \o Dec(interp.major) \o Dec(interp.minor) \o "-"
                   \o windows_platform(t) \o ".pyd")
           [] OTHER -> Panic(TextNotSupported)

\* fmt::Display for PythonInterpreter.
Display(interp) ==
    "Python " \o Dec(interp.major) \o "." \o Dec(interp.minor) \o interp.abiflags
    \o " at " \o interp.executable

-----------------------------------------------------------------------------
\* Direct calls of the four functions, on any message or record a caller can build:
\* one call per behaviour, from the state in which nothing has been called yet.

\* The resolved abiflags strings a record can hold.
AbiflagsStrings == {"", "m", "u", "d", "mu", "md", "ud", "mud"}

\* The names a caller passes to find_all: Candidate(1), Candidate(2), ...
Candidate(i) == "python3." \o Dec(i + 4)

\* Records: PythonInterpreter has public fields and derives Deserialize.
Interpreters ==
    [major : 1..MaxMajor, minor : 0..MaxMinor, abiflags : AbiflagsStrings,
     target : OsNames, executable : {Candidate(1)}]

InitCalls ==
    /\ target \in Targets
    /\ python_versions = <<>>
    /\ idx = 1
    /\ available_versions = <<>>
    /\ outputs = <<>>
    /\ pc = "idle"
    /\ result = [tag |-> "None", val |-> <<>>, err |-> <<>>]
    /\ call = "none"
    /\ message = NoMessage
    /\ self = NoInterpreter
    /\ ret = Ok("")

CallFunWithAbiflags ==
    /\ call = "none"
    /\ \E msg \in Messages :
           /\ call' = "fun_with_abiflags"
           /\ message' = msg
           /\ self' = NoInterpreter
           /\ ret' = fun_with_abiflags(msg, target.os)
           /\ UNCHANGED <<target, find_all_vars>>

CallCheckPlatformSanity ==
    /\ call = "none"
    /\ \E msg \in Messages :
           /\ call' = "check_platform_sanity"
           /\ message' = msg
           /\ self' = NoInterpreter
           /\ ret' = check_platform_sanity(msg, target.os)
           /\ UNCHANGED <<target, find_all_vars>>

CallGetTag ==
    /\ call = "none"
    /\ \E interp \in Interpreters :
           /\ call' = "get_tag"
           /\ message' = NoMessage
           /\ self' = interp
           /\ ret' = get_tag(interp, target)
           /\ UNCHANGED <<target, find_all_vars>>

CallGetLibraryExtension ==
    /\ call = "none"
    /\ \E interp \in Interpreters :
           /\ call' = "get_library_extension"
           /\ message' = NoMessage
           /\ self' = interp
           /\ ret' = get_library_extension(interp, target)
           /\ UNCHANGED <<target, find_all_vars>>

NextCalls ==
    \/ CallFunWithAbiflags
    \/ CallCheckPlatformSanity
    \/ CallGetTag
    \/ CallGetLibraryExtension

SpecCalls == InitCalls /\ [][NextCalls]_vars

-----------------------------------------------------------------------------
\* The probe: the child's stdout as a JSON document, and its deserialisation.

\* JSON values.
JNum(n) == [t |-> "number", n |-> n, s |-> "", b |-> FALSE]

JStr(s) == [t |-> "string", n |-> 0, s |-> s, b |-> FALSE]

JBool(b) == [t |-> "bool", n |-> 0, s |-> "", b |-> b]

JNull == [t |-> "null", n |-> 0, s |-> "", b |-> FALSE]

\* Bytes that are a JSON object with these members.
JObject(members) == [json |-> TRUE, members |-> members]

\* Bytes that are not JSON at all.
Garbage == [json |-> FALSE, members |-> <<>>]

\* GET_INTERPRETER_METADATA: what json.dumps prints for an interpreter whose
\* configuration is msg (ABIFLAGS undefined is printed as null).
GET_INTERPRETER_METADATA(msg) ==
    JObject([f \in {"major", "minor", "abiflags", "m", "u", "d", "platform"} |->
        CASE f = "major" -> JNum(msg.major)
          [] f = "minor" -> JNum(msg.minor)
          [] f = "abiflags" ->
                IF is_some(msg.abiflags) THEN JStr(msg.abiflags[1]) ELSE JNull
          [] f = "m" -> JBool(msg.m)
          [] f = "u" -> JBool(msg.u)
          [] f = "d" -> JBool(msg.d)
          [] f = "platform" -> JStr(msg.platform)])

\* The members of a JSON object without member f.
Without(doc, f) ==
    JObject([g \in (DOMAIN doc.members) \ {f} |-> doc.members[g]])

\* The JSON object with member f set to v.
With(doc, f, v) ==
    JObject([g \in (DOMAIN doc.members) \cup {f} |->
                IF g = f THEN v ELSE doc.members[g]])

TextSerde == "serde_json: invalid metadata"

\* serde_json::from_slice::<IntepreterMetadataMessage>: usize members need a
\* non-negative number, bool members a bool, platform a string; the Option member
\* is None when null or missing; unknown members are ignored.
from_slice(stdout) ==
    LET mem == stdout.members
        has(f, t) == f \in DOMAIN mem /\ mem[f].t = t
        usize(f) == has(f, "number") /\ mem[f].n >= 0
        option(f) == f \notin DOMAIN mem \/ mem[f].t \in {"null", "string"}
    IN  IF /\ stdout.json
           /\ usize("major") /\ usize("minor")
           /\ option("abiflags")
           /\ has("m", "bool") /\ has("u", "bool") /\ has("d", "bool")
           /\ has("platform", "string")
        THEN Ok([major |-> mem["major"].n, minor |-> mem["minor"].n,
                 abiflags |-> IF has("abiflags", "string")
                              THEN Some(mem["abiflags"].s) ELSE None,
                 m |-> mem["m"].b, u |-> mem["u"].b, d |-> mem["d"].b,
                 platform |-> mem["platform"].s])
        ELSE Err(<<Msg(TextSerde, <<>>)>>)

\* The minor version from which python 3 is supported.
MinMinorPython3 == 5

\* The configurations of the interpreters found on the search path: every major,
\* the minors on both sides of the python 3 rule, pymalloc on or off.
ProbeMessages ==
    {msg \in Messages :
        /\ msg.minor \in {MinMinorPython3 - 1, MinMinorPython3}
        /\ ~msg.u /\ ~msg.d
        /\ msg.abiflags \in {None, Some("m")}
        /\ msg.platform \in {"win32", "linux", "darwin", "cygwin"}}

\* What a child that exits with status 0 may have printed.
Stdouts ==
    {GET_INTERPRETER_METADATA(msg) : msg \in ProbeMessages}
    \cup {Garbage,
          Without(GET_INTERPRETER_METADATA(CHOOSE msg \in ProbeMessages : TRUE),
                  "platform"),
          With(GET_INTERPRETER_METADATA(CHOOSE msg \in ProbeMessages : TRUE),
               "major", JNum(-1))}

\* Command::output(): io::Error of kind NotFound, another io::Error, or the exit
\* status and captured stdout of the child.
Output(spawn, success, stdout) ==
    [spawn |-> spawn, success |-> success, stdout |-> stdout]

Outputs ==
    {Output("NotFound", FALSE, Garbage), Output("PermissionDenied", FALSE, Garbage),
     Output("Ok", FALSE, Garbage)}
    \cup {Output("Ok", TRUE, stdout) : stdout \in Stdouts}

TextIo == "io error: {}"

-----------------------------------------------------------------------------
\* PythonInterpreter::find_all.

\* What one pass of the loop body decides: continue, an early return of a
\* failure (bail!, ?), or the push of a record.
Continue == [ctl |-> "continue", err |-> <<>>, interp |-> NoInterpreter]

\* Bail that drops the failure and goes on with the next candidate.
Bail_and_go_on(r) == [ctl |-> "continue", err |-> <<>>, interp |-> NoInterpreter]

Bail(r) == [ctl |-> "bail", err |-> r.err, interp |-> NoInterpreter]

Push(interp) == [ctl |-> "push", err |-> <<>>, interp |-> interp]

\* The body of the for loop, for one executable and what spawning it gave.
find_all_body(executable, output, os) ==
    LET err_msg == Msg(TextMetadata, <<executable>>)
    IN  IF output.spawn = "NotFound" THEN Continue
        ELSE IF output.spawn # "Ok"
        THEN Bail(context(Err(<<Msg(TextIo, <<output.spawn>>)>>), err_msg))
        ELSE IF ~output.success THEN Bail(Err(<<err_msg>>))
        ELSE LET parsed == context(from_slice(output.stdout), err_msg)
             IN  IF parsed.tag = "Err" THEN Bail(parsed)
                 ELSE LET msg == parsed.val
                          sanity == check_platform_sanity(msg, os)
                          abiflags == context(fun_with_abiflags(msg, os),
                                              Msg(TextInformation, <<>>))
                      IN  IF sanity.tag = "Err" THEN Bail(sanity)
                          ELSE IF abiflags.tag = "Err" THEN Bail(abiflags)
                          ELSE Push(PythonInterpreter(msg.major, msg.minor,
                                                      abiflags.val, os, executable))

\* push that keeps one record per version and abiflags.
push_unless_known(vec, interp) ==
    IF \E n \in 1..Len(vec) :
           /\ vec[n].major = interp.major
           /\ vec[n].minor = interp.minor
           /\ vec[n].abiflags = interp.abiflags
    THEN vec
    ELSE Append(vec, interp)

\* The Vec after a push.
push(vec, interp) == Append(vec, interp)

Init ==
    /\ target \in Targets
    /\ python_versions \in
           {[i \in 1..n |-> Candidate(i)] : n \in 0..MaxCandidates}
    /\ idx = 1
    /\ available_versions = <<>>
    /\ outputs = <<>>
    /\ pc = "loop"
    /\ result = [tag |-> "None", val |-> <<>>, err |-> <<>>]
    /\ call = "none"
    /\ message = NoMessage
    /\ self = NoInterpreter
    /\ ret = Ok("")

\* One iteration: spawn python_versions[idx], then continue, bail or push.
Probe ==
    /\ pc = "loop"
    /\ idx <= Len(python_versions)
    /\ \E output \in Outputs :
           LET body == find_all_body(python_versions[idx], output, target.os)
           IN  /\ outputs' = Append(outputs, output)
               /\ IF body.ctl = "bail"
                  THEN /\ pc' = "returned"
                       /\ result' = [tag |-> "Err", val |-> <<>>, err |-> body.err]
                       /\ available_versions' = <<>>
                       /\ idx' = idx
                  ELSE /\ pc' = pc
                       /\ result' = result
                       /\ available_versions' =
                              IF body.ctl = "push"
                              THEN push(available_versions, body.interp)
                              ELSE available_versions
                       /\ idx' = idx + 1
    /\ UNCHANGED <<target, python_versions, call_vars>>

\* The loop is over: Ok(available_versions).
Return ==
    /\ pc = "loop"
    /\ idx > Len(python_versions)
    /\ pc' = "returned"
    /\ result' = [tag |-> "Ok", val |-> available_versions, err |-> <<>>]
    /\ available_versions' = <<>>
    /\ UNCHANGED <<target, python_versions, idx, outputs, call_vars>>

Next == Probe \/ Return

Spec == Init /\ [][Next]_vars

-----------------------------------------------------------------------------
\* Vocabulary of the properties.

SupportedOs == {"linux", "macos", "windows"}

\* The failure classes, told apart by the text of the innermost message.
AbiFlagViolation(r) ==
    /\ r.tag = "Err"
    /\ r.err[Len(r.err)].text \in
           {TextPy2Abiflags, TextPy2Windows, TextPy3Windows, TextPy3NotM,
            TextPy3NoAbiflags}

UnsupportedPlatform(r) ==
    /\ r.tag = "Err"
    /\ r.err[Len(r.err)].text \in {TextOtherPlatform, TextNotSupported}

UnsupportedInterpreterVersion(r) ==
    /\ r.tag = "Err"
    /\ r.err[Len(r.err)].text = TextVersion

\* The (label, host) pairs the platform check accepts.
AcceptedPairs ==
    {<<"win32", "windows">>, <<"win_amd64", "windows">>, <<"linux", "linux">>,
     <<"linux2", "linux">>, <<"linux3", "linux">>, <<"darwin", "macos">>}

\* The python 2 abiflags for each setting of m, u, d.
Python2Abiflags(m, u, d) ==
    CASE  m /\  u /\  d -> "mud"
      []  m /\  u /\ ~d -> "mu"
      []  m /\ ~u /\  d -> "md"
      []  m /\ ~u /\ ~d -> "m"
      [] ~m /\  u /\  d -> "ud"
      [] ~m /\  u /\ ~d -> "u"
      [] ~m /\ ~u /\  d -> "d"
      [] ~m /\ ~u /\ ~d -> ""

\* A spawned candidate that is present but fails one of the steps.
Fails(output, os) ==
    /\ output.spawn # "NotFound"
    /\ \/ output.spawn # "Ok"
       \/ ~output.success
       \/ from_slice(output.stdout).tag = "Err"
       \/ check_platform_sanity(from_slice(output.stdout).val, os).tag = "Err"
       \/ fun_with_abiflags(from_slice(output.stdout).val, os).tag = "Err"

\* The positions of the candidates whose executable was found, in input order.
FoundIdx ==
    SelectSeq([j \in 1..Len(outputs) |-> j],
              LAMBDA j : outputs[j].spawn # "NotFound")

Returned(tag) == pc = "returned" /\ result.tag = tag

\* Whether an error's chain names the executable.
Carries(err, executable) ==
    \E k \in 1..Len(err) : \E a \in 1..Len(err[k].args) : err[k].args[a] = executable

-----------------------------------------------------------------------------
\* Properties of find_all (specification Spec).

\* C1: a failure of find_all returns no records; it is the failure of the earliest
\* candidate in input order that is present but fails, the call stops at that
\* candidate, and no later candidate is spawned.
C1_FailFast ==
    /\ Returned("Err") =>
           LET k == Len(outputs)
           IN  /\ k \in 1..Len(python_versions)
               /\ result.val = <<>>
               /\ available_versions = <<>>
               /\ Fails(outputs[k], target.os)
               /\ result.err # <<>>
               /\ result.err =
                      find_all_body(python_versions[k], outputs[k], target.os).err
    /\ \A j \in 1..Len(outputs) :
           Fails(outputs[j], target.os) => (Returned("Err") /\ j = Len(outputs))

\* C1 happens: the first candidate resolved, the second one failed to parse, a
\* third one was never spawned.
C1_Witness ==
    /\ Returned("Err")
    /\ Len(python_versions) = 3
    /\ Len(outputs) = 2
    /\ ~Fails(outputs[1], target.os)
    /\ outputs[1].spawn = "Ok"
    /\ outputs[2].spawn = "Ok" /\ outputs[2].success
    /\ from_slice(outputs[2].stdout).tag = "Err"

\* C2: without a hard failure find_all returns one record per candidate that was
\* found, in input order; a candidate that is not found is skipped, and records of
\* equal version and abiflags are all kept.
C2_OneRecordPerFound ==
    Returned("Ok") =>
        /\ Len(outputs) = Len(python_versions)
        /\ Len(result.val) = Len(FoundIdx)
        /\ \A n \in 1..Len(FoundIdx) :
               LET j == FoundIdx[n]
                   msg == from_slice(outputs[j].stdout).val
               IN  /\ result.val[n].executable = python_versions[j]
                   /\ result.val[n].major = msg.major
                   /\ result.val[n].minor = msg.minor
                   /\ result.val[n].abiflags = fun_with_abiflags(msg, target.os).val
                   /\ result.val[n].target = target.os

\* C2 happens: found, not found, found, and the two records differ in the
\* executable only.
C2_Witness ==
    /\ Returned("Ok")
    /\ Len(outputs) = 3
    /\ outputs[2].spawn = "NotFound"
    /\ Len(result.val) = 2
    /\ result.val[1].executable = python_versions[1]
    /\ result.val[2].executable = python_versions[3]
    /\ result.val[1].major = result.val[2].major
    /\ result.val[1].minor = result.val[2].minor
    /\ result.val[1].abiflags = result.val[2].abiflags

\* C7: every failure find_all returns names the executable that caused it.
C7_FailureNamesExecutable ==
    Returned("Err") => Carries(result.err, python_versions[Len(outputs)])

\* A record that passed resolution on this host.
Resolved(interp) ==
    /\ interp.target = target.os
    /\ interp.target \in SupportedOs
    /\ interp.major = 2 \/ (interp.major = 3 /\ interp.minor >= 5)
    /\ get_tag(interp, target).tag = "Ok"
    /\ get_library_extension(interp, target).tag = "Ok"

\* C10: every record find_all holds or returns has the compiled-in host as its
\* target, one of linux, macos and windows, and a version 2.x or 3.5+, so get_tag
\* and get_library_extension do not reach their unsupported-platform branch on it;
\* on any other host no record is ever produced.
C10_RecordsAreSupported ==
    /\ \A n \in 1..Len(available_versions) : Resolved(available_versions[n])
    /\ \A n \in 1..Len(result.val) : Resolved(result.val[n])
    /\ target.os \notin SupportedOs =>
           (available_versions = <<>> /\ result.val = <<>>)

\* C10 happens: find_all returned a python 2 and a python 3 record.
C10_Witness ==
    /\ Returned("Ok")
    /\ \E n \in 1..Len(result.val) : result.val[n].major = 2
    /\ \E n \in 1..Len(result.val) : result.val[n].major = 3

-----------------------------------------------------------------------------
\* Properties of the four functions (specification SpecCalls).

Called(fn) == call = fn

\* C3: for major 2, a present abiflags field fails on every host; otherwise the
\* result is the letters m, u, d of the set flags in that order, except that on
\* windows a non-empty result is a failure.
C3_Python2Abiflags ==
    (Called("fun_with_abiflags") /\ message.major = 2) =>
        LET expected == Python2Abiflags(message.m, message.u, message.d)
        IN  IF message.abiflags # None THEN AbiFlagViolation(ret)
            ELSE IF target.os = "windows" /\ expected # ""
                 THEN AbiFlagViolation(ret)
                 ELSE ret = Ok(expected)

\* C3 happens: python 2 on linux with m and d set resolves to "md".
C3_Witness ==
    /\ Called("fun_with_abiflags")
    /\ message.major = 2 /\ message.abiflags = None
    /\ message.m /\ ~message.u /\ message.d
    /\ target.os = "linux"
    /\ ret = Ok("md")

\* C4: for major 3 and minor >= 5, whatever m, u and d are: on windows "" when
\* the abiflags field is absent and a failure when it is present; on linux and
\* macos "m" when the field is "m" and a failure otherwise; on any other host an
\* unsupported-platform failure, returned as an error.
C4_Python3Abiflags ==
    (Called("fun_with_abiflags") /\ message.major = 3 /\ message.minor >= 5) =>
        CASE target.os = "windows" ->
                IF message.abiflags = None THEN ret = Ok("")
                ELSE AbiFlagViolation(ret)
          [] target.os \in {"linux", "macos"} ->
                IF message.abiflags = Some("m") THEN ret = Ok("m")
                ELSE AbiFlagViolation(ret)
          [] OTHER -> UnsupportedPlatform(ret)

\* C4 happens: python 3.6 on linux with abiflags "mu" is refused.
C4_Witness ==
    /\ Called("fun_with_abiflags")
    /\ message.major = 3 /\ message.minor = 6
    /\ message.abiflags = Some("mu")
    /\ target.os = "linux"
    /\ AbiFlagViolation(ret)

\* C5: the platform check passes exactly on the accepted (label, host) pairs, and
\* otherwise fails with a message naming the label and the host.
C5_PlatformSanity ==
    Called("check_platform_sanity") =>
        IF <<message.platform, target.os>> \in AcceptedPairs THEN ret.tag = "Ok"
        ELSE ret = Err(<<Msg(TextPlatform, <<message.platform, target.os>>)>>)

\* C5 happens: "darwin" reported on a windows host is a mismatch.
C5_Witness ==
    /\ Called("check_platform_sanity")
    /\ message.platform = "darwin"
    /\ target.os = "windows"
    /\ ret.tag = "Err"

\* C6: get_tag and get_library_extension on a record whose host is not linux,
\* macos or windows yield an unsupported-platform failure as a value.
C6_UnsupportedPlatformIsAnError ==
    ((Called("get_tag") \/ Called("get_library_extension"))
     /\ self.target \notin SupportedOs) => UnsupportedPlatform(ret)

\* C8: every version that is neither 2.x nor 3.5+ is refused as an unsupported
\* interpreter version, on every host and for every abiflags, m, u, d.
C8_UnsupportedVersion ==
    (/\ Called("fun_with_abiflags")
     /\ message.major # 2
     /\ ~(message.major = 3 /\ message.minor >= 5)) =>
        UnsupportedInterpreterVersion(ret)

\* C8 happens: python 3.4 on windows without abiflags is refused.
C8_Witness ==
    /\ Called("fun_with_abiflags")
    /\ message.major = 3 /\ message.minor = 4
    /\ message.abiflags = None
    /\ target.os = "windows"
    /\ UnsupportedInterpreterVersion(ret)

\* C9: the suffix is ".so" for major 2 on every host; for major 3 it is
\* .cpython-3{minor}{abiflags}-{arch}-{os}-{env}.so on linux,
\* .cpython-3{minor}{abiflags}-darwin.so on macos and .cp3{minor}-win_amd64.pyd or
\* .cp3{minor}-win32.pyd on windows, by pointer width.
C9_LibraryExtension ==
    Called("get_library_extension") =>
        /\ self.major = 2 => ret = Ok(".so")
        /\ (self.major = 3 /\ self.target = "linux") =>
               ret = Ok(".cpython-3" \o Dec(self.minor) \o self.abiflags \o "-"
                        \o target.arch \o "-" \o target.os \o "-" \o target.env
                        \o ".so")
        /\ (self.major = 3 /\ self.target = "macos") =>
               ret = Ok(".cpython-3" \o Dec(self.minor) \o self.abiflags
                        \o "-darwin.so")
        /\ (self.major = 3 /\ self.target = "windows") =>
               ret = Ok(".cp3" \o Dec(self.minor)
                        \o (IF target.pointer_width = "64" THEN "-win_amd64.pyd"
                            ELSE "-win32.pyd"))

\* C9 happens: a python 2 record of a freebsd host gets ".so".
C9_Witness ==
    /\ Called("get_library_extension")
    /\ self.major = 2
    /\ self.target = "freebsd"
    /\ ret = Ok(".so")

====
